---------------------------- MODULE Spec2Model ----------------------------
(***************************************************************************)
(* Model of os-extras: the File and Folder handles of pathutils.py and     *)
(* utils.py over a hierarchical filesystem with regular files,            *)
(* directories and symbolic links.                                         *)
(*                                                                         *)
(* A string is a sequence of one-character strings, a path is a sequence   *)
(* of components (strings without a separator) read from the filesystem    *)
(* root.  The filesystem is a function from the paths of its entries to    *)
(* nodes; the root directory <<>> always exists.                           *)
(***************************************************************************)
EXTENDS Integers, Sequences, FiniteSets, TLC

VARIABLES
    fs,       \* the filesystem: [path -> node], the entries that exist
    file,     \* the pathutils.File handle: [open, path]
    folder,   \* the pathutils.Folder handle: [open, path]
    pc,       \* the call in progress between two filesystem accesses
    last      \* the call that has just returned or raised: name, arguments, outcome

vars == <<fs, file, folder, pc, last>>

(***************************************************************************)
(* Bounds of the model.                                                    *)
(***************************************************************************)
MaxDepth == 3      \* longest path, in components
MaxEntries == 4    \* entries of the filesystem beyond which no other actor adds one
MaxHops == 3       \* symbolic links followed in one path resolution

(***************************************************************************)
(* Strings.                                                                *)
(***************************************************************************)
SEP == "/"


EntryNames == {<<"a">>, <<"a", "b">>}

Ord(c) == CASE c = "." -> 46 [] c = "/" -> 47 [] c = "a" -> 97 [] c = "b" -> 98

\* s < t, as Python compares str: by code point, a proper prefix first
RECURSIVE StrLess(_, _)
StrLess(s, t) ==
    IF t = <<>> THEN FALSE
    ELSE IF s = <<>> THEN TRUE
    ELSE IF Head(s) = Head(t) THEN StrLess(Tail(s), Tail(t))
    ELSE Ord(Head(s)) < Ord(Head(t))

\* item in s, for two str
\* a find that compares whole names
ContainsWhole(item, s) == item = s

Contains(item, s) ==
    \E i \in 0..(Len(s) - Len(item)) : SubSeq(s, i + 1, i + Len(item)) = item

\* os.path.basename: what follows the last separator
\* a basename that gives back the whole string
basename_whole(s) == s

RECURSIVE basename(_)
basename(s) ==
    IF \A i \in 1..Len(s) : s[i] # SEP THEN s
    ELSE basename(Tail(s))


(***************************************************************************)
(* The filesystem (the external collaborator of os, os.path and shutil).   *)
(***************************************************************************)
Absent == [k |-> "absent"]

DirNode == [k |-> "dir"]

FileNode(c) == [k |-> "file", c |-> c]

LinkNode(t) == [k |-> "link", t |-> t]

\* every path an entry can have
FsPaths == UNION {[1..n -> EntryNames] : n \in 1..MaxDepth}

Node(f, p) == IF p = <<>> THEN DirNode ELSE IF p \in DOMAIN f THEN f[p] ELSE Absent

Parent(p) == SubSeq(p, 1, Len(p) - 1)

Last(p) == p[Len(p)]

IsPrefix(p, q) == Len(p) <= Len(q) /\ SubSeq(q, 1, Len(p)) = p

Children(f, d) == {q \in DOMAIN f : Len(q) = Len(d) + 1 /\ IsPrefix(d, q)}

Put(f, p, n) == [q \in DOMAIN f \cup {p} |-> IF q = p THEN n ELSE f[q]]

Del(f, p) == [q \in DOMAIN f \ {p} |-> f[q]]

OK == "ok"

\* the exceptions of class OSError
OSErrors == {"OSError", "FileNotFoundError", "FileExistsError", "NotADirectoryError",
             "IsADirectoryError", "SameFileError", "Error"}

\* the components of a string, cut at its separators
RECURSIVE split(_)
split(s) ==
    IF \A i \in DOMAIN s : s[i] # SEP THEN <<s>>
    ELSE LET i == CHOOSE k \in DOMAIN s : s[k] = SEP /\ \A j \in 1..(k - 1) : s[j] # SEP
         IN  <<SubSeq(s, 1, i - 1)>> \o split(SubSeq(s, i + 1, Len(s)))

\* os.path.join of a path and a string: the string alone when it is absolute,
\* else the path, one separator, and the string
join(p, name) ==
    IF name # <<>> /\ Head(name) = SEP THEN split(name)
    ELSE IF p # <<>> /\ Last(p) = <<>> THEN Parent(p) \o split(name)
    ELSE p \o split(name)

\* Path resolution as the kernel does it: cur is the directory reached, rest the
\* components still to read; a link met before the last component, or at the last
\* one when follow is set, is replaced by its (absolute) target.
RECURSIVE Walk(_, _, _, _, _)
Walk(f, cur, rest, follow, hops) ==
    IF rest = <<>> THEN [err |-> OK, p |-> cur]
    ELSE IF Node(f, cur).k = "absent" THEN [err |-> "ENOENT", p |-> cur]
    ELSE IF Node(f, cur).k # "dir" THEN [err |-> "ENOTDIR", p |-> cur]
    ELSE LET c == Head(rest)
             t == Tail(rest)
         IN  IF c \in {<<>>, <<".">>} THEN Walk(f, cur, t, follow, hops)
             ELSE IF c = <<".", ".">> THEN Walk(f, Parent(cur), t, follow, hops)
             ELSE LET cand == Append(cur, c)
                      n == Node(f, cand)
                  IN  IF n.k = "link" /\ (t # <<>> \/ follow)
                      THEN IF hops = 0 THEN [err |-> "ELOOP", p |-> cand]
                           ELSE Walk(f, <<>>, n.t \o t, follow, hops - 1)
                      ELSE IF t = <<>> THEN [err |-> OK, p |-> cand]
                      ELSE Walk(f, cand, t, follow, hops)

\* os.stat and os.lstat: the node a path names, Absent when it names none
stat(f, p) ==
    LET found(w) == IF w.err = OK THEN Node(f, w.p) ELSE Absent
    IN  found(Walk(f, <<>>, p, TRUE, MaxHops))

lstat(f, p) ==
    LET found(w) == IF w.err = OK THEN Node(f, w.p) ELSE Absent
    IN  found(Walk(f, <<>>, p, FALSE, MaxHops))

exists(f, p) == stat(f, p).k # "absent"

isfile(f, p) == stat(f, p).k = "file"

isdir(f, p) == stat(f, p).k = "dir"

islink(f, p) == lstat(f, p).k = "link"

\* os.path.samefile on two paths that exist
samefile(f, p, q) ==
    /\ exists(f, p)
    /\ exists(f, q)
    /\ Walk(f, <<>>, p, TRUE, MaxHops).p = Walk(f, <<>>, q, TRUE, MaxHops).p

\* the outcome of a call: the filesystem it leaves and the exception it raised
Out(f, e) == [fs |-> f, exc |-> e]

ErrnoExc(err) ==
    CASE err = "ENOENT" -> "FileNotFoundError"
      [] err = "ENOTDIR" -> "NotADirectoryError"
      [] OTHER -> "OSError"

\* os.remove (unlink): removes a file or a link, never follows the last link
remove(f, p) ==
    LET unlink(w) ==
            IF w.err # OK THEN Out(f, ErrnoExc(w.err))
            ELSE IF Node(f, w.p).k = "absent" THEN Out(f, "FileNotFoundError")
            ELSE IF Node(f, w.p).k = "dir" THEN Out(f, "IsADirectoryError")
            ELSE Out(Del(f, w.p), OK)
    IN  unlink(Walk(f, <<>>, p, FALSE, MaxHops))

\* os.rmdir: removes an empty directory; a trailing separator is dropped, and a
\* path ending in "." or ".." is refused
RECURSIVE StripSep(_)
StripSep(p) == IF p # <<>> /\ Last(p) = <<>> THEN StripSep(Parent(p)) ELSE p

rmdir(f, p) ==
    LET unlink(q, w) ==
            IF w.err # OK THEN Out(f, ErrnoExc(w.err))
            ELSE IF Node(f, w.p).k = "absent" THEN Out(f, "FileNotFoundError")
            ELSE IF Node(f, w.p).k # "dir" THEN Out(f, "NotADirectoryError")
            ELSE IF q # <<>> /\ Last(q) \in {<<".">>, <<".", ".">>} THEN Out(f, "OSError")
            ELSE IF w.p = <<>> \/ Children(f, w.p) # {} THEN Out(f, "OSError")
            ELSE Out(Del(f, w.p), OK)
        at(q) == unlink(q, Walk(f, <<>>, q, FALSE, MaxHops))
    IN  at(StripSep(p))

\* os.mkdir
mkdir(f, p) ==
    LET make(w) ==
            IF w.err # OK THEN Out(f, ErrnoExc(w.err))
            ELSE IF Node(f, w.p).k # "absent" THEN Out(f, "FileExistsError")
            ELSE IF Len(w.p) > MaxDepth THEN Out(f, "OSError")
            ELSE Out(Put(f, w.p, DirNode), OK)
    IN  make(Walk(f, <<>>, p, FALSE, MaxHops))

\* os.makedirs(p, exist_ok=True)
RECURSIVE makedirs(_, _)
makedirs(f, p) ==
    LET made(m) == IF m.exc = OK \/ isdir(m.fs, p) THEN Out(m.fs, OK) ELSE m
        head_made(h) ==
            IF h.exc \notin {OK, "FileExistsError"} THEN h ELSE made(mkdir(h.fs, p))
    IN  IF p = <<>> THEN Out(f, OK)
        ELSE head_made(IF exists(f, Parent(p)) THEN Out(f, OK) ELSE makedirs(f, Parent(p)))

\* open(p, mode).close() after writing content: mode "w" truncates, "a" appends;
\* the last link is followed and a missing file is created
open_write(f, p, mode, content) ==
    LET opened(w, n) ==
            IF w.err # OK THEN Out(f, ErrnoExc(w.err))
            ELSE IF n.k = "dir" THEN Out(f, "IsADirectoryError")
            ELSE IF n.k = "absent" /\ Len(w.p) > MaxDepth THEN Out(f, "OSError")
            ELSE IF n.k = "file" /\ mode = "a"
            THEN Out(Put(f, w.p, FileNode(n.c \o content)), OK)
            ELSE Out(Put(f, w.p, FileNode(content)), OK)
        at(w) == opened(w, Node(f, w.p))
    IN  at(Walk(f, <<>>, p, TRUE, MaxHops))

\* the bytes open(p, "rb").read() returns, for a path that isfile
read(f, p) == stat(f, p).c

\* os.scandir(p), sorted by name: the names in the directory, each with the kind
\* the directory records for it (DirEntry caches it; a link is resolved on use)
RECURSIVE SortNames(_)
SortNames(S) ==
    IF S = {} THEN <<>>
    ELSE LET m == CHOOSE x \in S : \A y \in S \ {x} : StrLess(x, y)
         IN  <<m>> \o SortNames(S \ {m})

scandir(f, p) ==
    LET entries(d, names) ==
            [i \in 1..Len(names) |->
                [name |-> names[i], path |-> join(p, names[i]),
                 k |-> f[Append(d, names[i])].k]]
        listed(d) == entries(d, SortNames({Last(q) : q \in Children(f, d)}))
    IN  listed(Walk(f, <<>>, p, TRUE, MaxHops).p)

\* DirEntry.is_file() and is_dir(): the recorded kind, a link followed when asked;
\* following a link that leads nowhere answers False, and any other failure to
\* resolve it (a loop of links, a link through a file) raises OSError
entry_error(f, e) ==
    LET failed(err) == IF e.k # "link" \/ err \in {OK, "ENOENT"} THEN OK ELSE ErrnoExc(err)
    IN  failed(Walk(f, <<>>, e.path, TRUE, MaxHops).err)

is_file(f, e) == IF e.k = "link" THEN isfile(f, e.path) ELSE e.k = "file"

is_dir(f, e) == IF e.k = "link" THEN isdir(f, e.path) ELSE e.k = "dir"


\* shutil.copy2(src, dst): into dst when dst is a directory; links are followed;
\* ret is the path written
\* a copy that creates the destination and writes nothing into it
copy2_empty(f, src, dst) ==
    LET copied(real_dst, o) == [fs |-> o.fs, exc |-> o.exc, ret |-> real_dst]
        to(real_dst) == copied(real_dst, open_write(f, real_dst, "w", <<>>))
    IN  to(IF isdir(f, dst) THEN join(dst, Last(src)) ELSE dst)

\* a copy that takes the source away
copy2_moving(f, src, dst) ==
    LET copied(o) == [fs |-> remove(o.fs, src).fs, exc |-> o.exc, ret |-> dst]
    IN  copied(open_write(f, dst, "w", read(f, src)))

copy2(f, src, dst) ==
    LET copied(real_dst, o) == [fs |-> o.fs, exc |-> o.exc, ret |-> real_dst]
        to(real_dst) ==
            IF samefile(f, src, real_dst)
            THEN [fs |-> f, exc |-> "SameFileError", ret |-> real_dst]
            ELSE IF ~exists(f, src)
            THEN [fs |-> f, exc |-> "FileNotFoundError", ret |-> real_dst]
            ELSE IF ~isfile(f, src)
            THEN [fs |-> f, exc |-> "IsADirectoryError", ret |-> real_dst]
            ELSE copied(real_dst, open_write(f, real_dst, "w", read(f, src)))
    IN  to(IF isdir(f, dst) THEN join(dst, Last(src)) ELSE dst)

\* os.rename of a file or a link: replaces what is at dst, never a directory
rename(f, src, dst) ==
    LET replace(ws, wd) ==
            IF ws.err # OK THEN Out(f, ErrnoExc(ws.err))
            ELSE IF Node(f, ws.p).k = "absent" THEN Out(f, "FileNotFoundError")
            ELSE IF wd.err # OK THEN Out(f, ErrnoExc(wd.err))
            ELSE IF Node(f, wd.p).k = "dir" THEN Out(f, "IsADirectoryError")
            ELSE IF Len(wd.p) > MaxDepth THEN Out(f, "OSError")
            ELSE IF ws.p = wd.p THEN Out(f, OK)
            ELSE Out(Put(Del(f, ws.p), wd.p, Node(f, ws.p)), OK)
    IN  replace(Walk(f, <<>>, src, FALSE, MaxHops), Walk(f, <<>>, dst, FALSE, MaxHops))

\* os.symlink(target, p)
symlink(f, target, p) ==
    LET make(w) ==
            IF w.err # OK THEN Out(f, ErrnoExc(w.err))
            ELSE IF Node(f, w.p).k # "absent" THEN Out(f, "FileExistsError")
            ELSE IF Len(w.p) > MaxDepth THEN Out(f, "OSError")
            ELSE Out(Put(f, w.p, LinkNode(target)), OK)
    IN  make(Walk(f, <<>>, p, FALSE, MaxHops))

\* shutil.move(src, dst) of a file: a rename, with the copy-and-delete fallback
\* when the rename fails; ret is the path moved to
move(f, src, dst) ==
    LET removed(real_dst, c, u) ==
            IF c.exc # OK THEN [fs |-> c.fs, exc |-> c.exc, ret |-> real_dst]
            ELSE [fs |-> u.fs, exc |-> u.exc, ret |-> real_dst]
        placed(real_dst, c) == removed(real_dst, c, remove(c.fs, src))
        renamed(into, real_dst, r) ==
            IF into /\ exists(f, real_dst) THEN [fs |-> f, exc |-> "Error", ret |-> real_dst]
            ELSE IF r.exc = OK THEN [fs |-> r.fs, exc |-> OK, ret |-> real_dst]
            ELSE IF islink(f, src)
            THEN placed(real_dst, symlink(f, lstat(f, src).t, real_dst))
            ELSE placed(real_dst, copy2(f, src, real_dst))
        to(into, real_dst) == renamed(into, real_dst, rename(f, src, real_dst))
        moving(into) == to(into, IF into THEN join(dst, Last(src)) ELSE dst)
    IN  moving(isdir(f, dst) /\ ~samefile(f, src, dst))


(***************************************************************************)
(* Handles.  A handle is [st, p, lib]: st is "unmade" before its           *)
(* constructor has returned, "path" while _path is the path p, and "None"  *)
(* once _path is None; lib names the module of its class.                  *)
(***************************************************************************)
Unmade == [st |-> "unmade", p |-> <<>>, lib |-> "pathutils"]

Handle(p, lib) == [st |-> "path", p |-> p, lib |-> lib]

\* a handle that keeps its path
Cleared_kept(h) == h

Cleared(h) == [st |-> "None", p |-> <<>>, lib |-> h.lib]

\* the outcome of a method: the filesystem, the exception, the handle, the value
Res(f, e, h, ret) == [fs |-> f, exc |-> e, h |-> h, ret |-> ret]

NoRet == <<>>

(***************************************************************************)
(* pathutils.File                                                          *)
(***************************************************************************)
\* File.__init__ after its existence check found nothing: the creating open
File_init_create(f, path) ==
    LET opened(o) ==
            IF o.exc # OK THEN Res(o.fs, o.exc, Unmade, NoRet)
            ELSE Res(o.fs, OK, Handle(path, "pathutils"), NoRet)
    IN  opened(open_write(f, path, "a", <<>>))

\* File.__init__(path, ensure_exists)
File_init(f, path, ensure_exists) ==
    IF path = <<>> THEN Res(f, "ValueError", Unmade, NoRet)
    ELSE IF ~exists(f, path)
    THEN IF ensure_exists THEN File_init_create(f, path)
         ELSE Res(f, "ValueError", Unmade, NoRet)
    ELSE IF ~isfile(f, path) THEN Res(f, "ValueError", Unmade, NoRet)
    ELSE Res(f, OK, Handle(path, "pathutils"), NoRet)

\* File.__bool__
File_bool(f, h) == h.st = "path" /\ isfile(f, h.p)

\* the guard most methods open with: self._path is None or not isfile(self._path)
File_invalid(f, h) == h.st # "path" \/ ~isfile(f, h.p)

\* File.name
File_name(f, h) == IF File_invalid(f, h) THEN <<>> ELSE Last(h.p)

\* the lines of a file: split after each newline (byte 10)
RECURSIVE Lines(_, _)
Lines(c, cur) ==
    IF c = <<>> THEN IF cur = <<>> THEN <<>> ELSE <<cur>>
    ELSE IF Head(c) = 10 THEN <<Append(cur, 10)>> \o Lines(Tail(c), <<>>)
    ELSE Lines(Tail(c), Append(cur, Head(c)))

\* File.__iter__: the lines, or ValueError at the first step
File_iter(f, h) ==
    IF File_invalid(f, h) THEN Res(f, "ValueError", h, NoRet)
    ELSE Res(f, OK, h, Lines(read(f, h.p), <<>>))

\* File.read_bytes(bufsize), bufsize -1 for the whole file
File_read_bytes(f, h, bufsize) ==
    LET first(c) == IF bufsize < 0 \/ bufsize > Len(c) THEN c ELSE SubSeq(c, 1, bufsize)
    IN  IF File_invalid(f, h) THEN Res(f, "ValueError", h, NoRet)
        ELSE Res(f, OK, h, first(read(f, h.p)))

\* File.read_text(bufsize, encoding)
File_read_text(f, h, bufsize) ==
    LET first(c) == IF bufsize < 0 \/ bufsize > Len(c) THEN c ELSE SubSeq(c, 1, bufsize)
    IN  IF File_invalid(f, h) THEN Res(f, "ValueError", h, NoRet)
        ELSE Res(f, OK, h, first(read(f, h.p)))

\* File.write_bytes(content, append)
File_write_bytes(f, h, content, append) ==
    LET written(o) == Res(o.fs, o.exc, h, IF o.exc = OK THEN Len(content) ELSE NoRet)
    IN  IF h.st # "path" THEN Res(f, "ValueError", h, NoRet)
        ELSE written(open_write(f, h.p, IF append THEN "a" ELSE "w", content))

\* File.write_text(content, encoding, append)
File_write_text(f, h, content, append) ==
    LET written(o) == Res(o.fs, o.exc, h, IF o.exc = OK THEN Len(content) ELSE NoRet)
    IN  IF h.st # "path" THEN Res(f, "ValueError", h, NoRet)
        ELSE written(open_write(f, h.p, IF append THEN "a" ELSE "w", content))

\* File.grep(item) with a str item: the lines that contain it
File_grep(f, h, item) ==
    LET matching(it) ==
            IF it.exc # OK THEN it
            ELSE Res(f, OK, h, SelectSeq(it.ret, LAMBDA line : Contains(item, line)))
    IN  matching(File_iter(f, h))

\* File.delete after its guard passed: the removal, FileNotFoundError swallowed
File_delete_remove(f, h) ==
    LET removed(r) ==
            IF r.exc \in {OK, "FileNotFoundError"} THEN Res(r.fs, OK, Cleared(h), NoRet)
            ELSE Res(r.fs, r.exc, h, NoRet)
    IN  removed(remove(f, h.p))

\* File.delete()
File_delete(f, h) ==
    IF File_invalid(f, h) THEN Res(f, "ValueError", h, NoRet)
    ELSE File_delete_remove(f, h)

\* File.copy_to(path): ret is the pair (self, the new File handle)
File_copy_to(f, h, path) ==
    LET made(n) == Res(n.fs, n.exc, h, IF n.exc # OK THEN NoRet ELSE <<h, n.h>>)
        copied(c) ==
            IF c.exc # OK THEN Res(c.fs, c.exc, h, NoRet)
            ELSE made(File_init(c.fs, c.ret, FALSE))
    IN  IF File_invalid(f, h) THEN Res(f, "ValueError", h, NoRet)
        ELSE copied(copy2(f, h.p, path))

\* File.move_to(path)
File_move_to(f, h, path) ==
    LET moved(m) ==
            IF m.exc # OK THEN Res(m.fs, m.exc, h, NoRet)
            ELSE Res(m.fs, OK, Handle(m.ret, h.lib), NoRet)
    IN  IF File_invalid(f, h) THEN Res(f, "ValueError", h, NoRet)
        ELSE moved(move(f, h.p, path))

\* hashlib: a digest is determined by the algorithm and the bytes, and digests
\* of different bytes differ
HashTypes == {"sha1", "sha224", "sha256", "sha384", "sha512"}

\* a digest that tells no two contents apart
hexdigest_blind(hash_type, c) == [alg |-> hash_type, of |-> <<>>]

hexdigest(hash_type, c) == [alg |-> hash_type, of |-> c]

\* File.hash(hash_type)
File_hash(f, h, hash_type) ==
    IF File_invalid(f, h) THEN Res(f, "ValueError", h, NoRet)
    ELSE IF hash_type \notin HashTypes THEN Res(f, "ValueError", h, NoRet)
    ELSE Res(f, OK, h, hexdigest(hash_type, read(f, h.p)))


(***************************************************************************)
(* pathutils.Folder                                                        *)
(*                                                                         *)
(* files() and subfolders() are generators: the directory is listed when   *)
(* the loop starts, and each entry is tested (is_file, is_dir) and its     *)
(* handle constructed only when the loop reaches it, on the filesystem as  *)
(* the loop body has left it.                                              *)
(***************************************************************************)
\* Folder.__init__(path, ensure_exists)
Folder_init(f, path, ensure_exists) ==
    LET made(m) ==
            IF m.exc # OK THEN Res(m.fs, m.exc, Unmade, NoRet)
            ELSE Res(m.fs, OK, Handle(path, "pathutils"), NoRet)
    IN  IF path = <<>> THEN Res(f, "ValueError", Unmade, NoRet)
        ELSE IF ~exists(f, path)
        THEN IF ensure_exists THEN made(makedirs(f, path))
             ELSE Res(f, "ValueError", Unmade, NoRet)
        ELSE IF ~isdir(f, path) THEN Res(f, "ValueError", Unmade, NoRet)
        ELSE Res(f, OK, Handle(path, "pathutils"), NoRet)

\* Folder.__bool__
Folder_bool(f, h) == h.st = "path" /\ isdir(f, h.p)

\* the guard the methods open with: self._path is None or not isdir(self._path)
Folder_invalid(f, h) == h.st # "path" \/ ~isdir(f, h.p)

\* Folder.is_symlink
Folder_is_symlink(f, h) == IF Folder_invalid(f, h) THEN FALSE ELSE islink(f, h.p)

\* Folder.name
Folder_name(f, h) == IF Folder_invalid(f, h) THEN <<>> ELSE Last(h.p)

\* Folder.delete(): the loop over files()
RECURSIVE Folder_delete_files(_, _, _)
Folder_delete_files(f, entries, i) ==
    LET deleted(d) ==
            IF d.exc # OK THEN Out(d.fs, d.exc)
            ELSE Folder_delete_files(d.fs, entries, i + 1)
        made(n) == IF n.exc # OK THEN Out(n.fs, n.exc) ELSE deleted(File_delete(n.fs, n.h))
        tested(err) ==
            IF err # OK THEN Out(f, err)
            ELSE IF ~is_file(f, entries[i]) THEN Folder_delete_files(f, entries, i + 1)
            ELSE made(File_init(f, entries[i].path, FALSE))
    IN  IF i > Len(entries) THEN Out(f, OK) ELSE tested(entry_error(f, entries[i]))

\* Folder.delete(), and its loop over subfolders()
RECURSIVE Folder_delete(_, _)
RECURSIVE Folder_delete_subfolders(_, _, _)
Folder_delete_subfolders(f, entries, i) ==
    LET deleted(d) ==
            IF d.exc # OK THEN Out(d.fs, d.exc)
            ELSE Folder_delete_subfolders(d.fs, entries, i + 1)
        made(n) == IF n.exc # OK THEN Out(n.fs, n.exc) ELSE deleted(Folder_delete(n.fs, n.h))
        tested(err) ==
            IF err # OK THEN Out(f, err)
            ELSE IF ~is_dir(f, entries[i]) THEN Folder_delete_subfolders(f, entries, i + 1)
            ELSE made(Folder_init(f, entries[i].path, FALSE))
    IN  IF i > Len(entries) THEN Out(f, OK) ELSE tested(entry_error(f, entries[i]))

\* Folder.delete() from the end of its loop over files(), which left d1
Folder_delete_from(h, d1) ==
    LET removed(r) ==
            IF r.exc # OK THEN Res(r.fs, r.exc, h, NoRet)
            ELSE Res(r.fs, OK, Cleared(h), NoRet)
        subfolders_deleted(d2) ==
            IF d2.exc # OK THEN Res(d2.fs, d2.exc, h, NoRet)
            ELSE removed(rmdir(d2.fs, h.p))
    IN  IF d1.exc # OK THEN Res(d1.fs, d1.exc, h, NoRet)
        ELSE IF Folder_invalid(d1.fs, h) THEN Res(d1.fs, "ValueError", h, NoRet)
        ELSE subfolders_deleted(Folder_delete_subfolders(d1.fs, scandir(d1.fs, h.p), 1))

Folder_delete(f, h) ==
    LET removed(r) ==
            IF r.exc # OK THEN Res(r.fs, r.exc, h, NoRet)
            ELSE Res(r.fs, OK, Cleared(h), NoRet)
    IN  IF Folder_invalid(f, h) THEN Res(f, "ValueError", h, NoRet)
        ELSE IF Folder_is_symlink(f, h) THEN removed(remove(f, h.p))
        ELSE Folder_delete_from(h, Folder_delete_files(f, scandir(f, h.p), 1))


\* what the recursive calls accumulate: the value returned so far and the
\* filesystem calls made, in order
Acc(f, e, ret, log) == [fs |-> f, exc |-> e, ret |-> ret, log |-> log]

\* Folder.copy_to(path): the loop over files(); ret holds the (source, new) pairs
RECURSIVE Folder_copy_files(_, _, _, _, _)
Folder_copy_files(f, entries, i, path, acc) ==
    LET copied(c) ==
            IF c.exc # OK THEN Acc(c.fs, c.exc, acc.ret, acc.log)
            ELSE Folder_copy_files(c.fs, entries, i + 1, path,
                     [ret |-> Append(acc.ret, c.ret),
                      log |-> Append(acc.log, [call |-> "copy2", p |-> c.ret[2].p])])
        made(n) ==
            IF n.exc # OK THEN Acc(n.fs, n.exc, acc.ret, acc.log)
            ELSE copied(File_copy_to(n.fs, n.h, join(path, File_name(n.fs, n.h))))
        tested(err) ==
            IF err # OK THEN Acc(f, err, acc.ret, acc.log)
            ELSE IF ~is_file(f, entries[i]) THEN Folder_copy_files(f, entries, i + 1, path, acc)
            ELSE made(File_init(f, entries[i].path, FALSE))
    IN  IF i > Len(entries) THEN Acc(f, OK, acc.ret, acc.log)
        ELSE tested(entry_error(f, entries[i]))

\* Folder.copy_to(path), and its loop over subfolders()
RECURSIVE Folder_copy(_, _, _, _)
RECURSIVE Folder_copy_subfolders(_, _, _, _, _)
Folder_copy_subfolders(f, entries, i, path, acc) ==
    LET copied(c) ==
            IF c.exc # OK THEN Acc(c.fs, c.exc, acc.ret, c.log)
            ELSE Folder_copy_subfolders(c.fs, entries, i + 1, path,
                     [ret |-> acc.ret \o c.ret, log |-> c.log])
        made(n) ==
            IF n.exc # OK THEN Acc(n.fs, n.exc, acc.ret, acc.log)
            ELSE copied(Folder_copy(n.fs, n.h, join(path, Folder_name(n.fs, n.h)), acc.log))
        tested(err) ==
            IF err # OK THEN Acc(f, err, acc.ret, acc.log)
            ELSE IF ~is_dir(f, entries[i])
            THEN Folder_copy_subfolders(f, entries, i + 1, path, acc)
            ELSE made(Folder_init(f, entries[i].path, FALSE))
    IN  IF i > Len(entries) THEN Acc(f, OK, acc.ret, acc.log)
        ELSE tested(entry_error(f, entries[i]))

Folder_copy(f, h, path, log) ==
    LET log1 == Append(log, [call |-> "makedirs", p |-> path])
        files_copied(c1) ==
            IF c1.exc # OK THEN c1
            ELSE IF Folder_invalid(c1.fs, h) THEN Acc(c1.fs, "ValueError", c1.ret, c1.log)
            ELSE Folder_copy_subfolders(c1.fs, scandir(c1.fs, h.p), 1, path,
                     [ret |-> c1.ret, log |-> c1.log])
        made(m) ==
            IF m.exc # OK THEN Acc(m.fs, m.exc, <<>>, log)
            ELSE IF Folder_invalid(m.fs, h) THEN Acc(m.fs, "ValueError", <<>>, log1)
            ELSE files_copied(Folder_copy_files(m.fs, scandir(m.fs, h.p), 1, path,
                                  [ret |-> <<>>, log |-> log1]))
    IN  IF Folder_invalid(f, h) THEN Acc(f, "ValueError", <<>>, log)
        ELSE made(makedirs(f, path))

Folder_copy_to(f, h, path) ==
    LET copied(c) == Res(c.fs, c.exc, h, [pairs |-> c.ret, log |-> c.log])
    IN  copied(Folder_copy(f, h, path, <<>>))

\* Folder.move_to(path): the loop over files(); ret holds the moved File handles
RECURSIVE Folder_move_files(_, _, _, _, _)
Folder_move_files(f, entries, i, path, moved_files) ==
    LET moved(m) ==
            IF m.exc # OK THEN Res(m.fs, m.exc, Unmade, moved_files)
            ELSE Folder_move_files(m.fs, entries, i + 1, path, Append(moved_files, m.h))
        made(n) ==
            IF n.exc # OK THEN Res(n.fs, n.exc, Unmade, moved_files)
            ELSE moved(File_move_to(n.fs, n.h, join(path, File_name(n.fs, n.h))))
        tested(err) ==
            IF err # OK THEN Res(f, err, Unmade, moved_files)
            ELSE IF ~is_file(f, entries[i])
            THEN Folder_move_files(f, entries, i + 1, path, moved_files)
            ELSE made(File_init(f, entries[i].path, FALSE))
    IN  IF i > Len(entries) THEN Res(f, OK, Unmade, moved_files)
        ELSE tested(entry_error(f, entries[i]))

\* Folder.move_to(path), and its loop over subfolders()
RECURSIVE Folder_move_to(_, _, _)
RECURSIVE Folder_move_subfolders(_, _, _, _, _)
Folder_move_subfolders(f, entries, i, path, moved_files) ==
    LET moved(m) ==
            IF m.exc # OK THEN Res(m.fs, m.exc, Unmade, moved_files)
            ELSE Folder_move_subfolders(m.fs, entries, i + 1, path, moved_files \o m.ret)
        made(n) ==
            IF n.exc # OK THEN Res(n.fs, n.exc, Unmade, moved_files)
            ELSE moved(Folder_move_to(n.fs, n.h, join(path, Folder_name(n.fs, n.h))))
        tested(err) ==
            IF err # OK THEN Res(f, err, Unmade, moved_files)
            ELSE IF ~is_dir(f, entries[i])
            THEN Folder_move_subfolders(f, entries, i + 1, path, moved_files)
            ELSE made(Folder_init(f, entries[i].path, FALSE))
    IN  IF i > Len(entries) THEN Res(f, OK, Unmade, moved_files)
        ELSE tested(entry_error(f, entries[i]))

Folder_move_to(f, h, path) ==
    LET removed(m2, r) ==
            IF r.exc # OK THEN Res(r.fs, r.exc, h, NoRet)
            ELSE Res(r.fs, OK, Handle(path, h.lib), m2.ret)
        subfolders_moved(m2) ==
            IF m2.exc # OK THEN Res(m2.fs, m2.exc, h, NoRet)
            ELSE removed(m2, rmdir(m2.fs, h.p))
        files_moved(m1) ==
            IF m1.exc # OK THEN Res(m1.fs, m1.exc, h, NoRet)
            ELSE IF Folder_invalid(m1.fs, h) THEN Res(m1.fs, "ValueError", h, NoRet)
            ELSE subfolders_moved(
                     Folder_move_subfolders(m1.fs, scandir(m1.fs, h.p), 1, path, m1.ret))
        made(m) ==
            IF m.exc # OK THEN Res(m.fs, m.exc, h, NoRet)
            ELSE IF Folder_invalid(m.fs, h) THEN Res(m.fs, "ValueError", h, NoRet)
            ELSE files_moved(Folder_move_files(m.fs, scandir(m.fs, h.p), 1, path, <<>>))
    IN  IF Folder_invalid(f, h) THEN Res(f, "ValueError", h, NoRet)
        ELSE made(makedirs(f, path))

\* a match of find: a File or a Folder handle
Match(cls, h) == [cls |-> cls, h |-> h]

\* Folder.find(item) with a str item: the loop over files()
RECURSIVE Folder_find_files(_, _, _, _, _)
Folder_find_files(f, entries, i, item, matches) ==
    LET made(n) ==
            IF n.exc # OK THEN Res(n.fs, n.exc, Unmade, matches)
            ELSE Folder_find_files(f, entries, i + 1, item,
                     IF Contains(item, File_name(f, n.h))
                     THEN Append(matches, Match("File", n.h)) ELSE matches)
        tested(err) ==
            IF err # OK THEN Res(f, err, Unmade, matches)
            ELSE IF ~is_file(f, entries[i])
            THEN Folder_find_files(f, entries, i + 1, item, matches)
            ELSE made(File_init(f, entries[i].path, FALSE))
    IN  IF i > Len(entries) THEN Res(f, OK, Unmade, matches)
        ELSE tested(entry_error(f, entries[i]))

\* Folder.find(item), and its loop over subfolders()
RECURSIVE Folder_find(_, _, _)
RECURSIVE Folder_find_subfolders(_, _, _, _, _)
Folder_find_subfolders(f, entries, i, item, matches) ==
    LET searched(own, other_matches) ==
            IF other_matches.exc # OK THEN Res(f, other_matches.exc, Unmade, own)
            ELSE Folder_find_subfolders(f, entries, i + 1, item, own \o other_matches.ret)
        made(n) ==
            IF n.exc # OK THEN Res(n.fs, n.exc, Unmade, matches)
            ELSE searched(IF Contains(item, Folder_name(f, n.h))
                          THEN Append(matches, Match("Folder", n.h)) ELSE matches,
                          Folder_find(f, n.h, item))
        tested(err) ==
            IF err # OK THEN Res(f, err, Unmade, matches)
            ELSE IF ~is_dir(f, entries[i])
            THEN Folder_find_subfolders(f, entries, i + 1, item, matches)
            ELSE made(Folder_init(f, entries[i].path, FALSE))
    IN  IF i > Len(entries) THEN Res(f, OK, Unmade, matches)
        ELSE tested(entry_error(f, entries[i]))

Folder_find(f, h, item) ==
    LET subfolders_searched(m2) ==
            IF m2.exc # OK THEN Res(f, m2.exc, h, NoRet) ELSE Res(f, OK, h, m2.ret)
        files_searched(m1) ==
            IF m1.exc # OK THEN Res(f, m1.exc, h, NoRet)
            ELSE subfolders_searched(
                     Folder_find_subfolders(f, scandir(f, h.p), 1, item, m1.ret))
    IN  IF Folder_invalid(f, h) THEN Res(f, "ValueError", h, NoRet)
        ELSE files_searched(Folder_find_files(f, scandir(f, h.p), 1, item, <<>>))

\* Folder.add_file(name)
Folder_add_file(f, h, name) ==
    LET made(new_file) == Res(new_file.fs, new_file.exc, h, new_file.h)
    IN  IF basename(name) # name THEN Res(f, "ValueError", h, NoRet)
        ELSE IF Folder_invalid(f, h) THEN Res(f, "ValueError", h, NoRet)
        ELSE made(File_init(f, join(h.p, name), TRUE))

\* Folder.delete_file(name)
Folder_delete_file(f, h, name) ==
    IF basename(name) # name THEN Res(f, "ValueError", h, NoRet)
    ELSE IF Folder_invalid(f, h) THEN Res(f, "ValueError", h, NoRet)
    ELSE IF isdir(f, join(h.p, name)) THEN Res(f, "ValueError", h, NoRet)
    ELSE LET deleted(d) == Res(d.fs, d.exc, h, NoRet)
             made(n) ==
                 IF n.exc # OK THEN Res(n.fs, n.exc, h, NoRet)
                 ELSE deleted(File_delete(n.fs, n.h))
         IN  made(File_init(f, join(h.p, name), FALSE))

\* Folder.make_subfolder(name)
Folder_make_subfolder(f, h, name) ==
    IF basename(name) # name THEN Res(f, "ValueError", h, NoRet)
    ELSE IF Folder_invalid(f, h) THEN Res(f, "ValueError", h, NoRet)
    ELSE LET made(n) == Res(n.fs, n.exc, h, n.h)
         IN  made(Folder_init(f, join(h.p, name), TRUE))

\* Folder.delete_subfolder(name)
Folder_delete_subfolder(f, h, name) ==
    IF basename(name) # name THEN Res(f, "ValueError", h, NoRet)
    ELSE IF Folder_invalid(f, h) THEN Res(f, "ValueError", h, NoRet)
    ELSE IF isfile(f, join(h.p, name)) THEN Res(f, "ValueError", h, NoRet)
    ELSE LET deleted(d) == Res(d.fs, d.exc, h, NoRet)
             made(n) ==
                 IF n.exc # OK THEN Res(n.fs, n.exc, h, NoRet)
                 ELSE deleted(Folder_delete(n.fs, n.h))
         IN  made(Folder_init(f, join(h.p, name), FALSE))

(***************************************************************************)
(* Folder content comparison (compareContent), as specified: the direct    *)
(* files of the two folders, each sorted by name, are paired by position   *)
(* and compared by digest.                                                 *)
(***************************************************************************)
\* the direct files of a folder, in the order files() yields them
Folder_files(f, h) == SelectSeq(scandir(f, h.p), LAMBDA e : is_file(f, e))

\* the first error files() raises on its way through the listing, or OK
Folder_files_error(f, h) ==
    LET first(failed) == IF failed = <<>> THEN OK ELSE entry_error(f, failed[1])
    IN  first(SelectSeq(scandir(f, h.p), LAMBDA e : entry_error(f, e) # OK))

\* compareContent(other)
Folder_compareContent(f, h, other) ==
    LET digest(e) == File_hash(f, Handle(e.path, h.lib), "sha256").ret
        paired(mine, theirs) ==
            IF Len(mine) # Len(theirs) THEN Res(f, "CountMismatch", h, NoRet)
            ELSE Res(f, OK, h, \A i \in 1..Len(mine) : digest(mine[i]) = digest(theirs[i]))
        listed(e1, e2) ==
            IF e1 # OK THEN Res(f, e1, h, NoRet)
            ELSE IF e2 # OK THEN Res(f, e2, h, NoRet)
            ELSE paired(Folder_files(f, h), Folder_files(f, other))
    IN  IF Folder_invalid(f, h) \/ Folder_invalid(f, other)
        THEN Res(f, "InvalidState", h, NoRet)
        ELSE listed(Folder_files_error(f, h), Folder_files_error(f, other))

(***************************************************************************)
(* utils.File and utils.Folder                                             *)
(***************************************************************************)
\* utils.File.__init__ after its existence check found nothing: the creating open
utils_File_init_create(f, path) ==
    LET opened(o) ==
            IF o.exc # OK THEN Res(o.fs, o.exc, Unmade, NoRet)
            ELSE Res(o.fs, OK, Handle(path, "utils"), NoRet)
    IN  opened(open_write(f, path, "w", <<>>))

\* utils.File.__init__(path, ensure_exists)
utils_File_init(f, path, ensure_exists) ==
    IF ~exists(f, path)
    THEN IF ensure_exists THEN utils_File_init_create(f, path)
         ELSE Res(f, "ValueError", Unmade, NoRet)
    ELSE IF ~isfile(f, path) THEN Res(f, "ValueError", Unmade, NoRet)
    ELSE Res(f, OK, Handle(path, "utils"), NoRet)

\* utils.Folder.__init__(path, ensure_exists), path not empty
utils_Folder_init(f, path, ensure_exists) ==
    LET made(m) ==
            IF m.exc # OK THEN Res(m.fs, m.exc, Unmade, NoRet)
            ELSE Res(m.fs, OK, Handle(path, "utils"), NoRet)
    IN  IF ~exists(f, path)
        THEN IF ensure_exists THEN made(makedirs(f, path))
             ELSE Res(f, "ValueError", Unmade, NoRet)
        ELSE IF ~isdir(f, path) THEN Res(f, "ValueError", Unmade, NoRet)
        ELSE Res(f, OK, Handle(path, "utils"), NoRet)

\* utils.Folder.add_file(name, content); no content (None) and the empty string
\* both write nothing and are one case here; ret is the new file's path
utils_Folder_add_file(f, h, name, content) ==
    LET written(o) == Res(o.fs, o.exc, h, IF o.exc = OK THEN join(h.p, name) ELSE NoRet)
    IN  IF basename(name) # name THEN Res(f, "ValueError", h, NoRet)
        ELSE IF h.st # "path" THEN Res(f, OK, h, NoRet)
        ELSE written(open_write(f, join(h.p, name), "w", content))

\* a sequence, last element first
Reverse(s) == [i \in 1..Len(s) |-> s[Len(s) + 1 - i]]

\* os.listdir(p): the names in the directory.  Their order is the filesystem's
\* choice; two orders are modelled, by name ascending and (rev) descending.
listdir(f, p, rev) ==
    LET ordered(names) == IF rev THEN Reverse(names) ELSE names
        listed(w) ==
            IF w.err # OK THEN [exc |-> ErrnoExc(w.err), names |-> <<>>]
            ELSE IF Node(f, w.p).k = "absent"
            THEN [exc |-> "FileNotFoundError", names |-> <<>>]
            ELSE IF Node(f, w.p).k # "dir"
            THEN [exc |-> "NotADirectoryError", names |-> <<>>]
            ELSE [exc |-> OK,
                  names |-> ordered(SortNames({Last(q) : q \in Children(f, w.p)}))]
    IN  listed(Walk(f, <<>>, p, TRUE, MaxHops))

\* utils.File.__bool__
utils_File_bool(f, h) == h.st = "path" /\ isfile(f, h.p)

\* utils.Folder.__bool__: len(listdir(self.path)) > 0, on a directory
utils_Folder_bool(f, h, rev) == listdir(f, h.p, rev).names # <<>>

\* no object: the None a method returns
NoMatch == [cls |-> "None"]

\* the truth value of what find returned from a subfolder ("if obj")
Truth(f, obj, rev) ==
    CASE obj.cls = "None" -> FALSE
      [] obj.cls = "File" -> utils_File_bool(f, obj.h)
      [] obj.cls = "Folder" -> utils_Folder_bool(f, obj.h, rev)

\* re.match(pattern, name) for a pattern of plain characters: the pattern is
\* matched at the start of the name
re_match(pattern, name) == IsPrefix(pattern, name)

\* the test find applies to a name:
\* name == item if not pattern else match(pattern, name)
utils_find_test(item, use_regex, name) ==
    IF use_regex THEN re_match(item, name) ELSE name = item

\* utils.Folder.find: the loop over files()
RECURSIVE utils_Folder_find_files(_, _, _, _, _, _)
utils_Folder_find_files(f, p, names, i, item, use_regex) ==
    IF i > Len(names) THEN NoMatch
    ELSE IF isfile(f, join(p, names[i])) /\ utils_find_test(item, use_regex, names[i])
    THEN Match("File", utils_File_init(f, join(p, names[i]), FALSE).h)
    ELSE utils_Folder_find_files(f, p, names, i + 1, item, use_regex)

\* utils.Folder.find(item, use_regex), and its loop over subfolders(): the
\* call on a subfolder is subfolder.find(item), use_regex left at its default
RECURSIVE utils_Folder_find(_, _, _, _, _)
RECURSIVE utils_Folder_find_subfolders(_, _, _, _, _, _, _)
utils_Folder_find_subfolders(f, p, names, i, item, use_regex, rev) ==
    LET searched(obj) ==
            IF Truth(f, obj, rev) THEN obj
            ELSE utils_Folder_find_subfolders(f, p, names, i + 1, item, use_regex, rev)
        made(subfolder) ==
            IF utils_find_test(item, use_regex, names[i]) THEN Match("Folder", subfolder)
            ELSE searched(utils_Folder_find(f, subfolder, item, FALSE, rev).ret)
    IN  IF i > Len(names) THEN NoMatch
        ELSE IF ~isdir(f, join(p, names[i]))
        THEN utils_Folder_find_subfolders(f, p, names, i + 1, item, use_regex, rev)
        ELSE made(utils_Folder_init(f, join(p, names[i]), FALSE).h)

utils_Folder_find(f, h, item, use_regex, rev) ==
    LET searched(obj, l) ==
            IF obj.cls # "None" THEN Res(f, OK, h, obj)
            ELSE Res(f, OK, h,
                     utils_Folder_find_subfolders(f, h.p, l.names, 1, item, use_regex, rev))
        listed(l) ==
            IF l.exc # OK THEN Res(f, l.exc, h, NoMatch)
            ELSE searched(utils_Folder_find_files(f, h.p, l.names, 1, item, use_regex), l)
    IN  listed(listdir(f, h.p, rev))

\* utils.File.delete(): remove(self.path), then the path is cleared
utils_File_delete(f, h) ==
    LET removed(r) ==
            IF r.exc # OK THEN Res(r.fs, r.exc, h, NoRet) ELSE Res(r.fs, OK, Cleared(h), NoRet)
    IN  IF h.st # "path" THEN Res(f, OK, h, NoRet) ELSE removed(remove(f, h.p))

\* what utils.Folder.delete has done so far: the filesystem, the exception
\* and its two lists
Deleted(f, e, files, folders) ==
    [fs |-> f, exc |-> e, deleted_files |-> files, deleted_subfolders |-> folders]

\* utils.Folder.delete: the loop over files(); the handle appended is the one
\* file.delete() has cleared
RECURSIVE utils_Folder_delete_files(_, _, _, _, _)
utils_Folder_delete_files(f, p, names, i, deleted_files) ==
    LET deleted(r) ==
            IF r.exc # OK THEN Deleted(r.fs, r.exc, deleted_files, <<>>)
            ELSE utils_Folder_delete_files(r.fs, p, names, i + 1,
                                           Append(deleted_files, r.h))
        made(n) ==
            IF n.exc # OK THEN Deleted(n.fs, n.exc, deleted_files, <<>>)
            ELSE deleted(utils_File_delete(n.fs, n.h))
    IN  IF i > Len(names) THEN Deleted(f, OK, deleted_files, <<>>)
        ELSE IF ~isfile(f, join(p, names[i]))
        THEN utils_Folder_delete_files(f, p, names, i + 1, deleted_files)
        ELSE made(utils_File_init(f, join(p, names[i]), FALSE))

\* utils.Folder.delete(), and its loop over subfolders(): the two lists of
\* the call on a subfolder are added to this call's lists
RECURSIVE utils_Folder_delete(_, _, _)
RECURSIVE utils_Folder_delete_subfolders(_, _, _, _, _, _)
utils_Folder_delete_subfolders(f, p, names, i, acc, rev) ==
    LET deleted(r) ==
            IF r.exc # OK THEN Deleted(r.fs, r.exc, acc.deleted_files, acc.deleted_subfolders)
            ELSE utils_Folder_delete_subfolders(
                     r.fs, p, names, i + 1,
                     Deleted(r.fs, OK, acc.deleted_files \o r.ret[1],
                             acc.deleted_subfolders \o r.ret[2]), rev)
        made(n) ==
            IF n.exc # OK THEN Deleted(n.fs, n.exc, acc.deleted_files, acc.deleted_subfolders)
            ELSE deleted(utils_Folder_delete(n.fs, n.h, rev))
    IN  IF i > Len(names) THEN Deleted(f, OK, acc.deleted_files, acc.deleted_subfolders)
        ELSE IF ~isdir(f, join(p, names[i]))
        THEN utils_Folder_delete_subfolders(f, p, names, i + 1, acc, rev)
        ELSE made(utils_Folder_init(f, join(p, names[i]), FALSE))

utils_Folder_delete(f, h, rev) ==
    LET result(d) == <<d.deleted_files, d.deleted_subfolders>>
        removed(d, r) ==
            IF r.exc # OK THEN Res(r.fs, r.exc, h, NoRet) ELSE Res(r.fs, OK, h, result(d))
        emptied(d, l) ==
            IF l.exc # OK THEN Res(d.fs, l.exc, h, NoRet)
            ELSE IF l.names = <<>> THEN removed(d, rmdir(d.fs, h.p))
            ELSE Res(d.fs, OK, h, result(d))
        subfolders_deleted(d) ==
            IF d.exc # OK THEN Res(d.fs, d.exc, h, NoRet)
            ELSE emptied(d, listdir(d.fs, h.p, rev))
        subfolders_listed(d, l) ==
            IF l.exc # OK THEN Res(d.fs, l.exc, h, NoRet)
            ELSE subfolders_deleted(
                     utils_Folder_delete_subfolders(d.fs, h.p, l.names, 1, d, rev))
        files_deleted(d) ==
            IF d.exc # OK THEN Res(d.fs, d.exc, h, NoRet)
            ELSE subfolders_listed(d, listdir(d.fs, h.p, rev))
        files_listed(l) ==
            IF l.exc # OK THEN Res(f, l.exc, h, NoRet)
            ELSE files_deleted(utils_Folder_delete_files(f, h.p, l.names, 1, <<>>))
    IN  IF h.st # "path" THEN Res(f, OK, h, NoRet)
        ELSE files_listed(listdir(f, h.p, rev))

(***************************************************************************)
(* The state machine.  Another actor (the rest of the system) creates and  *)
(* removes entries; the program constructs a handle and calls its methods. *)
(* last holds a call from its return until the caller takes the result.    *)
(***************************************************************************)
Idle == [op |-> "idle"]

\* the Folder method under examination has been called: the behaviour ends
Done == [op |-> "done"]

NoCall == [op |-> "none"]

\* the record of a call: the handle and filesystem it started from, its outcome
Call(op, arg, h0, r) ==
    [op |-> op, arg |-> arg, h0 |-> h0, pre |-> fs, exc |-> r.exc, ret |-> r.ret]

\* the paths handles are opened at, and the paths given as destinations
ArgPaths == {p \in FsPaths : Len(p) <= 2}

\* the paths Folder handles are opened at: those, and a name with a trailing
\* separator
FolderPaths == ArgPaths \cup {<<name, <<>>>> : name \in EntryNames}

\* where the links another actor makes point
LinkTargets == {<<<<"a">>>>, <<<<"a", "b">>>>, <<<<"a">>, <<"a">>>>, <<<<"a">>, <<"a", "b">>>>}

\* what another actor writes into the files it creates
EnvContents == {<<1>>, <<2>>}

Init ==
    /\ fs = <<>>
    /\ file = Unmade
    /\ folder = Unmade
    /\ pc = Idle
    /\ last = NoCall

\* another actor may add an entry at p: its parent is a directory, nothing is there
CanAdd(p) ==
    /\ pc # Done
    /\ Cardinality(DOMAIN fs) < MaxEntries
    /\ p \notin DOMAIN fs
    /\ Node(fs, Parent(p)).k = "dir"

EnvCreateFile ==
    \E p \in FsPaths, c \in EnvContents :
        /\ CanAdd(p)
        /\ fs' = Put(fs, p, FileNode(c))
        /\ last' = NoCall
        /\ UNCHANGED <<file, folder, pc>>

EnvMkdir ==
    \E p \in FsPaths :
        /\ CanAdd(p)
        /\ fs' = Put(fs, p, DirNode)
        /\ last' = NoCall
        /\ UNCHANGED <<file, folder, pc>>

EnvSymlink ==
    \E p \in FsPaths, t \in LinkTargets :
        /\ CanAdd(p)
        /\ fs' = Put(fs, p, LinkNode(t))
        /\ last' = NoCall
        /\ UNCHANGED <<file, folder, pc>>

EnvRemove ==
    \E p \in DOMAIN fs :
        /\ pc # Done
        /\ Children(fs, p) = {}
        /\ fs' = Del(fs, p)
        /\ last' = NoCall
        /\ UNCHANGED <<file, folder, pc>>

\* another actor at work anywhere in the filesystem
Env == EnvCreateFile \/ EnvMkdir \/ EnvSymlink \/ EnvRemove

Ready == pc = Idle /\ last = NoCall

FolderOpen ==
    \E p \in FolderPaths, ensure_exists \in BOOLEAN :
        LET r == Folder_init(fs, p, ensure_exists)
        IN  /\ Ready
            /\ folder.st = "unmade"
            /\ fs' = r.fs
            /\ folder' = r.h
            /\ UNCHANGED <<file, pc, last>>

\* the destinations given to copy_to and move_to, the items given to find, and
\* the names given to add_file, delete_file, make_subfolder and delete_subfolder
Items == {<<>>, <<"a">>, <<"b">>, <<"a", "b">>}

NameArgs == EntryNames \cup {<<>>, <<".">>, <<".", ".">>,
                            <<"a", "/", "b">>, <<"/", "a">>, <<"a", "/">>}

FolderCall(op, arg, r) ==
    /\ Ready
    /\ folder.st # "unmade"
    /\ folder.lib = "pathutils"
    /\ fs' = r.fs
    /\ folder' = r.h
    /\ last' = Call(op, arg, folder, r)
    /\ pc' = Done
    /\ UNCHANGED file

FolderDelete == FolderCall("Folder.delete", <<>>, Folder_delete(fs, folder))

FolderCopyTo ==
    \E path \in ArgPaths :
        FolderCall("Folder.copy_to", path, Folder_copy_to(fs, folder, path))

FolderMoveTo ==
    \E path \in ArgPaths :
        FolderCall("Folder.move_to", path, Folder_move_to(fs, folder, path))

FolderFind ==
    \E item \in Items :
        FolderCall("Folder.find", item, Folder_find(fs, folder, item))

FolderAddFile ==
    \E name \in NameArgs :
        FolderCall("Folder.add_file", name, Folder_add_file(fs, folder, name))

FolderDeleteFile ==
    \E name \in NameArgs :
        FolderCall("Folder.delete_file", name, Folder_delete_file(fs, folder, name))

FolderMakeSubfolder ==
    \E name \in NameArgs :
        FolderCall("Folder.make_subfolder", name, Folder_make_subfolder(fs, folder, name))

FolderDeleteSubfolder ==
    \E name \in NameArgs :
        FolderCall("Folder.delete_subfolder", name, Folder_delete_subfolder(fs, folder, name))

\* Folder.delete() in steps, another actor at work between them.  The first
\* step is the guard and the listing files() makes; each later step is one turn
\* of the loop over that listing; the last is the rest of the method.  pc holds
\* the listing, the place reached in it, the filesystem at the call and whether
\* another actor has removed a file listed and not yet reached.
DeleteRecord(r) ==
    [op |-> "Folder.delete", arg |-> <<>>, h0 |-> folder, pre |-> pc.pre,
     exc |-> r.exc, ret |-> r.ret, raced |-> pc.raced]

FolderDeleteBegin ==
    IF Folder_invalid(fs, folder) \/ Folder_is_symlink(fs, folder)
    THEN FolderDelete
    ELSE /\ Ready
         /\ folder.lib = "pathutils"
         /\ pc' = [op |-> "Folder.delete", entries |-> scandir(fs, folder.p), i |-> 1,
                   pre |-> fs, raced |-> FALSE]
         /\ UNCHANGED <<fs, file, folder, last>>

\* one turn of the loop over files(): an exception ends the call
FolderDeleteNext ==
    /\ pc.op = "Folder.delete"
    /\ pc.i <= Len(pc.entries)
    /\ LET turned(d) ==
               IF d.exc = OK
               THEN /\ fs' = d.fs
                    /\ pc' = [pc EXCEPT !.i = @ + 1]
                    /\ UNCHANGED <<file, folder, last>>
               ELSE /\ fs' = d.fs
                    /\ last' = DeleteRecord(Folder_delete_from(folder, d))
                    /\ pc' = Done
                    /\ UNCHANGED <<file, folder>>
       IN  turned(Folder_delete_files(fs, <<pc.entries[pc.i]>>, 1))

\* the loop over files() is over: the loop over subfolders() and the rmdir
FolderDeleteRest ==
    /\ pc.op = "Folder.delete"
    /\ pc.i > Len(pc.entries)
    /\ LET ended(r) ==
               /\ fs' = r.fs
               /\ folder' = r.h
               /\ last' = DeleteRecord(r)
               /\ pc' = Done
               /\ UNCHANGED file
       IN  ended(Folder_delete_from(folder, Out(fs, OK)))

\* another actor removes a regular file that is listed and not yet reached
RaceRemove ==
    /\ pc.op = "Folder.delete"
    /\ \E j \in pc.i..Len(pc.entries) :
           /\ pc.entries[j].k = "file"
           /\ lstat(fs, pc.entries[j].path).k = "file"
           /\ fs' = remove(fs, pc.entries[j].path).fs
           /\ pc' = [pc EXCEPT !.raced = TRUE]
           /\ UNCHANGED <<file, folder, last>>

(***************************************************************************)
(* File handles.  The constructor and delete() are two steps each, the     *)
(* existence check and then the creating open or the removal, and another  *)
(* actor may act in between; the other methods are one step.  A call's     *)
(* record stays in last until another actor or a later call replaces it.   *)
(***************************************************************************)
\* the longest content a file is appended to
MaxLen == 2

\* the paths the other actor works on while File handles are examined
FilePaths == {<<name>> : name \in EntryNames}

\* another actor at work on those paths
FileEnvCreateFile ==
    \E p \in FilePaths, c \in EnvContents :
        /\ CanAdd(p)
        /\ fs' = Put(fs, p, FileNode(c))
        /\ last' = NoCall
        /\ UNCHANGED <<file, folder, pc>>

FileEnvMkdir ==
    \E p \in FilePaths :
        /\ CanAdd(p)
        /\ fs' = Put(fs, p, DirNode)
        /\ last' = NoCall
        /\ UNCHANGED <<file, folder, pc>>

FileEnvSymlink ==
    \E p \in FilePaths, t \in LinkTargets :
        /\ CanAdd(p)
        /\ fs' = Put(fs, p, LinkNode(t))
        /\ last' = NoCall
        /\ UNCHANGED <<file, folder, pc>>

FileEnvRemove ==
    \E p \in DOMAIN fs \cap FilePaths :
        /\ pc # Done
        /\ Children(fs, p) = {}
        /\ fs' = Del(fs, p)
        /\ last' = NoCall
        /\ UNCHANGED <<file, folder, pc>>

FileEnv == FileEnvCreateFile \/ FileEnvMkdir \/ FileEnvSymlink \/ FileEnvRemove

\* what the program writes
Written == <<3>>

\* the sizes given to read_bytes and read_text, -1 for the whole file
Bufsizes == {-1, 1}

\* File(path, ensure_exists): the existence check.  Nothing there and creation
\* wanted: the creating open is still to come.
FileOpen ==
    \E path \in FilePaths, ensure_exists \in BOOLEAN :
        /\ pc = Idle
        /\ file.st = "unmade"
        /\ IF ~exists(fs, path) /\ ensure_exists
           THEN /\ pc' = [op |-> "File.__init__", path |-> path]
                /\ last' = NoCall
                /\ UNCHANGED <<fs, file, folder>>
           ELSE LET r == File_init(fs, path, ensure_exists)
                IN  /\ fs' = r.fs
                    /\ file' = r.h
                    /\ last' = Call("File.__init__", path, file, r)
                    /\ UNCHANGED <<folder, pc>>

\* the creating open of the constructor
FileOpenCreate ==
    /\ pc.op = "File.__init__"
    /\ LET r == File_init_create(fs, pc.path)
       IN  /\ fs' = r.fs
           /\ file' = r.h
           /\ last' = Call("File.__init__", pc.path, file, r)
           /\ pc' = Idle
           /\ UNCHANGED folder

\* utils.File(path, ensure_exists), in the same two steps
UtilsFileOpen ==
    \E path \in FilePaths, ensure_exists \in BOOLEAN :
        /\ pc = Idle
        /\ file.st = "unmade"
        /\ IF ~exists(fs, path) /\ ensure_exists
           THEN /\ pc' = [op |-> "utils.File.__init__", path |-> path]
                /\ last' = NoCall
                /\ UNCHANGED <<fs, file, folder>>
           ELSE LET r == utils_File_init(fs, path, ensure_exists)
                IN  /\ fs' = r.fs
                    /\ file' = r.h
                    /\ last' = Call("File.__init__", path, file, r)
                    /\ UNCHANGED <<folder, pc>>

UtilsFileOpenCreate ==
    /\ pc.op = "utils.File.__init__"
    /\ LET r == utils_File_init_create(fs, pc.path)
       IN  /\ fs' = r.fs
           /\ file' = r.h
           /\ last' = Call("File.__init__", pc.path, file, r)
           /\ pc' = Idle
           /\ UNCHANGED folder

\* a one-step method of the pathutils File handle
FileCall(op, arg, r) ==
    /\ pc = Idle
    /\ file.st # "unmade"
    /\ file.lib = "pathutils"
    /\ fs' = r.fs
    /\ file' = r.h
    /\ last' = Call(op, arg, file, r)
    /\ UNCHANGED <<folder, pc>>

\* File.delete(): the guard; past it, the removal is still to come
FileDelete ==
    IF File_invalid(fs, file)
    THEN FileCall("File.delete", <<>>, File_delete(fs, file))
    ELSE /\ pc = Idle
         /\ file.lib = "pathutils"
         /\ pc' = [op |-> "File.delete"]
         /\ last' = NoCall
         /\ UNCHANGED <<fs, file, folder>>

\* the removal of File.delete()
FileDeleteRemove ==
    /\ pc.op = "File.delete"
    /\ LET r == File_delete_remove(fs, file)
       IN  /\ fs' = r.fs
           /\ file' = r.h
           /\ last' = Call("File.delete", <<>>, file, r)
           /\ pc' = Idle
           /\ UNCHANGED folder

FileReadBytes ==
    \E bufsize \in Bufsizes :
        FileCall("File.read_bytes", bufsize, File_read_bytes(fs, file, bufsize))

FileReadText ==
    \E bufsize \in Bufsizes :
        FileCall("File.read_text", bufsize, File_read_text(fs, file, bufsize))

\* an appending write is not made to a file already MaxLen long
MayWrite(append) == append => Len(stat(fs, file.p).c) < MaxLen

FileWriteBytes ==
    \E append \in BOOLEAN :
        /\ file.st = "path" /\ isfile(fs, file.p) => MayWrite(append)
        /\ FileCall("File.write_bytes", append, File_write_bytes(fs, file, Written, append))

FileWriteText ==
    \E append \in BOOLEAN :
        /\ file.st = "path" /\ isfile(fs, file.p) => MayWrite(append)
        /\ FileCall("File.write_text", append, File_write_text(fs, file, Written, append))

FileGrep == FileCall("File.grep", Written, File_grep(fs, file, Written))

FileIter == FileCall("File.__iter__", <<>>, File_iter(fs, file))

FileCopyTo ==
    \E path \in FilePaths :
        FileCall("File.copy_to", path, File_copy_to(fs, file, path))

FileMoveTo ==
    \E path \in FilePaths :
        FileCall("File.move_to", path, File_move_to(fs, file, path))

FileHash ==
    \E hash_type \in {"sha256", "crc32"} :
        FileCall("File.hash", hash_type, File_hash(fs, file, hash_type))

\* utils.Folder(path, ensure_exists)
UtilsFolderOpen ==
    \E p \in FilePaths, ensure_exists \in BOOLEAN :
        LET r == utils_Folder_init(fs, p, ensure_exists)
        IN  /\ Ready
            /\ folder.st = "unmade"
            /\ fs' = r.fs
            /\ folder' = r.h
            /\ UNCHANGED <<file, pc, last>>

\* utils.Folder.add_file(name, content)
UtilsFolderAddFile ==
    \E name \in EntryNames, content \in {<<>>, Written} :
        LET r == utils_Folder_add_file(fs, folder, name, content)
        IN  /\ pc = Idle
            /\ folder.st # "unmade"
            /\ folder.lib = "utils"
            /\ fs' = r.fs
            /\ folder' = r.h
            /\ last' = Call("Folder.add_file", [name |-> name, content |-> content], folder, r)
            /\ UNCHANGED <<file, pc>>

\* a method of the utils Folder handle
UtilsFolderCall(op, arg, r) ==
    /\ Ready
    /\ folder.st # "unmade"
    /\ folder.lib = "utils"
    /\ fs' = r.fs
    /\ folder' = r.h
    /\ last' = Call(op, arg, folder, r)
    /\ pc' = Done
    /\ UNCHANGED file

UtilsFolderFind ==
    \E item \in Items, use_regex \in BOOLEAN, rev \in BOOLEAN :
        UtilsFolderCall("utils.Folder.find",
                        [item |-> item, use_regex |-> use_regex, rev |-> rev],
                        utils_Folder_find(fs, folder, item, use_regex, rev))

UtilsFolderDelete ==
    \E rev \in BOOLEAN :
        UtilsFolderCall("utils.Folder.delete", [rev |-> rev],
                        utils_Folder_delete(fs, folder, rev))

\* compareContent(other), other a handle to the folder at one of the paths
FolderCompareContent ==
    \E q \in FilePaths :
        FolderCall("Folder.compareContent", Handle(q, "pathutils"),
                   Folder_compareContent(fs, folder, Handle(q, "pathutils")))

Next ==
    \/ FileEnv
    \/ FileOpen
    \/ FileOpenCreate
    \/ FileDelete
    \/ FileDeleteRemove
    \/ FileReadBytes
    \/ FileReadText
    \/ FileWriteBytes
    \/ FileWriteText
    \/ FileGrep
    \/ FileIter
    \/ FileCopyTo
    \/ FileMoveTo
    \/ FileHash

Spec == Init /\ [][Next]_vars

\* the constructors that create, and add_file, of both libraries
NextCreate ==
    \/ FileEnv
    \/ FileOpen
    \/ FileOpenCreate
    \/ UtilsFileOpen
    \/ UtilsFileOpenCreate
    \/ FolderOpen
    \/ FolderAddFile
    \/ UtilsFolderOpen
    \/ UtilsFolderAddFile

SpecCreate == Init /\ [][NextCreate]_vars

\* one specification for each group of Folder methods, over the same filesystems
NextDelete == Env \/ FolderOpen \/ FolderDelete

SpecDelete == Init /\ [][NextDelete]_vars

NextCopy == Env \/ FolderOpen \/ FolderCopyTo

SpecCopy == Init /\ [][NextCopy]_vars

NextMove == Env \/ FolderOpen \/ FolderMoveTo

SpecMove == Init /\ [][NextMove]_vars

NextFind == Env \/ FolderOpen \/ FolderFind

SpecFind == Init /\ [][NextFind]_vars

NextNames ==
    \/ Env
    \/ FolderOpen
    \/ FolderAddFile
    \/ FolderDeleteFile
    \/ FolderMakeSubfolder
    \/ FolderDeleteSubfolder

SpecNames == Init /\ [][NextNames]_vars

NextUtilsFind == Env \/ UtilsFolderOpen \/ UtilsFolderFind

SpecUtilsFind == Init /\ [][NextUtilsFind]_vars

NextUtilsDelete == Env \/ UtilsFolderOpen \/ UtilsFolderDelete

SpecUtilsDelete == Init /\ [][NextUtilsDelete]_vars

\* another actor at work in the two top directories and what they hold
\* directly: room for two folders of two files each
CompareEnvAdd ==
    \E p \in ArgPaths,
       n \in {DirNode} \cup {FileNode(c) : c \in EnvContents}
                \cup {LinkNode(t) : t \in LinkTargets} :
        /\ pc # Done
        /\ p \notin DOMAIN fs
        /\ Node(fs, Parent(p)).k = "dir"
        /\ fs' = Put(fs, p, n)
        /\ last' = NoCall
        /\ UNCHANGED <<file, folder, pc>>

NextCompare == CompareEnvAdd \/ EnvRemove \/ FolderOpen \/ FolderCompareContent

SpecCompare == Init /\ [][NextCompare]_vars

\* Folder.delete() step by step, with another actor between the steps
NextDeleteRace ==
    \/ pc = Idle /\ Env
    \/ FolderOpen
    \/ FolderDeleteBegin
    \/ FolderDeleteNext
    \/ FolderDeleteRest
    \/ RaceRemove

SpecDeleteRace == Init /\ [][NextDeleteRace]_vars

(***************************************************************************)
(* Claims.                                                                 *)
(***************************************************************************)
\* the entry a path names, links in the last place not followed
Entry(f, p) == Walk(f, <<>>, p, FALSE, MaxHops).p

\* the entries of f at or under the entry r
Under(f, r) == {q \in DOMAIN f : IsPrefix(r, q)}

\* the entry q is in g what it was in f
Kept(f, g, q) == q \in DOMAIN g /\ g[q] = f[q]

\* a Folder.delete() call has just ended on a handle that was valid
DeleteCalled == last.op = "Folder.delete" /\ Folder_bool(last.pre, last.h0)

\* the links to directories at or under the entry r of f
DirLinks(f, r) == {l \in Under(f, r) : f[l].k = "link" /\ stat(f, l).k = "dir"}

\* the directory the link entry l of f leads to
Target(f, l) == Walk(f, <<>>, l, TRUE, MaxHops).p

\* C1: Folder.delete() removes nothing through a directory symlink.  When the
\* handle's own path names a symbolic link to a directory, only the link entry
\* is removed and every other entry, so the target and all it holds, is as it
\* was; for every directory link met in the recursion, the entries of its
\* target that lie outside the subtree being deleted are as they were.
C1_DeleteKeepsLinkTargets ==
    DeleteCalled =>
        LET pre == last.pre
            r == Entry(pre, StripSep(last.h0.p))
        IN  /\ pre[r].k = "link" => \A q \in DOMAIN pre \ {r} : Kept(pre, fs, q)
            /\ \A l \in DirLinks(pre, r) :
                   \A q \in Under(pre, Target(pre, l)) \ Under(pre, r) : Kept(pre, fs, q)

\* C3 as stated: Folder.delete() on a directory that is not itself a link returns
\* without error whatever the tree holds; then no entry of the subtree and not
\* the root directory exists, and the handle's path is cleared.
C3_DeleteRemovesTree ==
    (DeleteCalled /\ ~islink(last.pre, last.h0.p)) =>
        /\ last.exc = OK
        /\ Under(fs, Entry(last.pre, last.h0.p)) = {}
        /\ folder.st = "None"

\* the directory the handle h names in f, links followed
Root(f, h) == Walk(f, <<>>, h.p, TRUE, MaxHops).p

\* the path of the entry q relative to the directory r above it
Rel(r, q) == SubSeq(q, Len(r) + 1, Len(q))

\* the regular files of f at any depth under the directory r
FilesUnder(f, r) == {q \in Under(f, r) : f[q].k = "file"}

\* a Folder.move_to(dest) call has just returned normally
MoveReturned == last.op = "Folder.move_to" /\ last.exc = OK

\* C4 as stated: whenever Folder.move_to(dest) returns normally, the handle is
\* valid with path dest, dest is a directory, every file of the former subtree is
\* at the same relative path under dest with the same content, every returned
\* File handle is valid and lies under dest, and the original path is gone when
\* dest differs from it.
C4_MoveToLandsAtDest ==
    MoveReturned =>
        LET pre == last.pre
            r == Root(pre, last.h0)
            dest == last.arg
        IN  /\ folder.st = "path" /\ folder.p = dest /\ Folder_bool(fs, folder)
            /\ isdir(fs, dest)
            /\ \A q \in FilesUnder(pre, r) : stat(fs, dest \o Rel(r, q)) = pre[q]
            /\ \A i \in 1..Len(last.ret) :
                   File_bool(fs, last.ret[i]) /\ IsPrefix(dest, last.ret[i].p)
            /\ dest # last.h0.p => ~exists(fs, last.h0.p)

\* a Folder.copy_to(dest) call has just returned normally
CopyReturned == last.op = "Folder.copy_to" /\ last.exc = OK

\* the levels of the tree at sp as copy_to is meant to walk them, links followed,
\* to depth n: each directory with the directory under dp that mirrors it
RECURSIVE Levels(_, _, _, _)
Levels(f, sp, dp, n) ==
    IF n = 0 THEN {}
    ELSE LET es == scandir(f, sp)
         IN  {[src |-> sp, dst |-> dp]} \cup
             UNION {Levels(f, es[i].path, join(dp, es[i].name), n - 1) :
                        i \in {j \in DOMAIN es : is_dir(f, es[j])}}

\* the files of that tree in the order the result is meant to list them: a
\* directory's own files in name order, then those of each subfolder in turn;
\* each with its level's destination directory and its own destination
RECURSIVE Listing(_, _, _, _)
Listing(f, sp, dp, n) ==
    IF n = 0 THEN <<>>
    ELSE LET es == scandir(f, sp)
             RECURSIVE Own(_)
             Own(i) ==
                 IF i > Len(es) THEN <<>>
                 ELSE IF is_file(f, es[i])
                 THEN <<[src |-> es[i].path, dir |-> dp, dst |-> join(dp, es[i].name)]>>
                          \o Own(i + 1)
                 ELSE Own(i + 1)
             RECURSIVE Sub(_)
             Sub(i) ==
                 IF i > Len(es) THEN <<>>
                 ELSE IF is_dir(f, es[i])
                 THEN Listing(f, es[i].path, join(dp, es[i].name), n - 1) \o Sub(i + 1)
                 ELSE Sub(i + 1)
         IN  Own(1) \o Sub(1)

\* the positions of the log entries of one kind of call
LogAt(log, call) == {i \in DOMAIN log : log[i].call = call}

\* the position in the log of the k-th copy2 call
RECURSIVE NthCopy(_, _, _)
NthCopy(log, k, from) ==
    IF from > Len(log) THEN 0
    ELSE IF log[from].call = "copy2"
    THEN IF k = 1 THEN from ELSE NthCopy(log, k - 1, from + 1)
    ELSE NthCopy(log, k, from + 1)

\* dest, as it is after the call, lies outside every directory of the source tree
DestOutside ==
    \A l \in Levels(last.pre, last.h0.p, last.arg, MaxDepth + 1) :
        ~IsPrefix(Walk(last.pre, <<>>, l.src, TRUE, MaxHops).p,
                  Walk(fs, <<>>, last.arg, TRUE, MaxHops).p)

\* the symbolic links of the source tree
SourceLinks ==
    UNION {{e.path : e \in {es[i] : i \in {j \in DOMAIN es : es[j].k = "link"}}} :
               es \in {scandir(last.pre, l.src) :
                          l \in Levels(last.pre, last.h0.p, last.arg, MaxDepth + 1)}}

\* no symbolic link of the source tree leads to dest or into it
NoLinkIntoDest ==
    \A l \in SourceLinks :
        LET w == Walk(fs, <<>>, l, TRUE, MaxHops)
        IN  w.err = OK => ~IsPrefix(Walk(fs, <<>>, last.arg, TRUE, MaxHops).p, w.p)

\* what the copy is to achieve: each level's directory was made before a file of
\* the level was written, each file is at its destination with the source's
\* content, every level's directory exists, and the pairs are the listing, in order
CopyMirrors ==
    LET pre == last.pre
        want == Listing(pre, last.h0.p, last.arg, MaxDepth + 1)
        pairs == last.ret.pairs
        log == last.ret.log
    IN  /\ Len(pairs) = Len(want)
        /\ Cardinality(LogAt(log, "copy2")) = Len(want)
        /\ \A k \in DOMAIN want :
               /\ \E j \in LogAt(log, "makedirs") :
                      j < NthCopy(log, k, 1) /\ log[j].p = want[k].dir
               /\ log[NthCopy(log, k, 1)].p = want[k].dst
               /\ pairs[k][1].p = want[k].src
               /\ pairs[k][2].p = want[k].dst
               /\ stat(fs, want[k].dst) = stat(pre, want[k].src)
        /\ \A l \in Levels(pre, last.h0.p, last.arg, MaxDepth + 1) : isdir(fs, l.dst)

\* before the call no directory and no symbolic link is where a file is to
\* land, and no symbolic link where a level's directory is to be
DestClear ==
    /\ \A l \in Levels(last.pre, last.h0.p, last.arg, MaxDepth + 1) :
           lstat(last.pre, l.dst).k # "link"
    /\ LET want == Listing(last.pre, last.h0.p, last.arg, MaxDepth + 1)
       IN  \A k \in DOMAIN want : lstat(last.pre, want[k].dst).k \in {"absent", "file"}

\* C5 as amended: after Folder.copy_to(dest) returns, with dest outside the
\* source subtree (not in it, and no symbolic link of it leading into dest) and,
\* before the call, no directory or symbolic link at dest/p for a source file p
\* and no symbolic link at a destination directory: each
\* level's destination directory was created before a file of the level was
\* written, dest/p is a regular file with the content of the source file p,
\* every source subdirectory exists under dest, and the result holds one
\* (source, destination) pair per file, a directory's files in name order
\* before those of its subfolders.
C5_CopyToMirrors ==
    (CopyReturned /\ DestOutside /\ NoLinkIntoDest /\ DestClear) => CopyMirrors

\* C5 witness: copy_to returned after copying a file of the top level and a file
\* of a subfolder into a destination outside the source
C5_Witness ==
    /\ CopyReturned /\ DestOutside /\ NoLinkIntoDest /\ DestClear
    /\ Len(last.ret.pairs) >= 2
    /\ \E k \in DOMAIN last.ret.pairs : Len(last.ret.pairs[k][2].p) > Len(last.arg) + 1

\* C5 as stated: the same whatever dest held before the call (dest outside the
\* source subtree: not in it, and no symbolic link of it leading into dest).
C5_Original == (CopyReturned /\ DestOutside /\ NoLinkIntoDest) => CopyMirrors

\* a Folder.find(item) call has just ended on a handle that was valid
FindCalled == last.op = "Folder.find" /\ Folder_bool(last.pre, last.h0)

\* item is a substring of the name s
InName(item, s) == \E i, j \in 0..Len(s) : i <= j /\ SubSeq(s, i + 1, j) = item

\* the entries of the tree at sp whose name contains item, in depth-first
\* pre-order over the name-sorted entries, links followed, to depth n: a
\* directory's matching files, then each subfolder followed by what is inside it
RECURSIVE Found(_, _, _, _)
Found(f, sp, item, n) ==
    IF n = 0 THEN <<>>
    ELSE LET es == scandir(f, sp)
             Hit(i) == InName(item, es[i].name)
             RECURSIVE Own(_)
             Own(i) ==
                 IF i > Len(es) THEN <<>>
                 ELSE IF entry_error(f, es[i]) = OK /\ is_file(f, es[i]) /\ Hit(i)
                 THEN <<[cls |-> "File", p |-> es[i].path]>> \o Own(i + 1)
                 ELSE Own(i + 1)
             RECURSIVE Sub(_)
             Sub(i) ==
                 IF i > Len(es) THEN <<>>
                 ELSE IF entry_error(f, es[i]) = OK /\ is_dir(f, es[i])
                 THEN (IF Hit(i) THEN <<[cls |-> "Folder", p |-> es[i].path]>> ELSE <<>>)
                          \o Found(f, es[i].path, item, n - 1) \o Sub(i + 1)
                 ELSE Sub(i + 1)
         IN  Own(1) \o Sub(1)

\* every symbolic link of the tree at sp resolves or has no target, and none
\* leads back to a directory above itself: the tree unfolds within depth n
RECURSIVE Tame(_, _, _)
Tame(f, sp, n) ==
    /\ n > 0
    /\ LET es == scandir(f, sp)
       IN  \A i \in DOMAIN es :
               /\ entry_error(f, es[i]) = OK
               /\ is_dir(f, es[i]) => Tame(f, es[i].path, n - 1)

\* what find returned, as the class and path of each match
Returned == [i \in DOMAIN last.ret |-> [cls |-> last.ret[i].cls, p |-> last.ret[i].h.p]]

NameCalled ==
    last.op \in {"Folder.add_file", "Folder.delete_file",
                 "Folder.make_subfolder", "Folder.delete_subfolder"}

\* the string has a path separator in it
HasSep(name) == \E i \in DOMAIN name : name[i] = SEP

\* what the name given to the call names in the folder, before the call
Named == stat(last.pre, last.h0.p \o <<last.arg>>)

\* C9: add_file, delete_file, make_subfolder and delete_subfolder raise
\* ValueError and leave the filesystem and the handle as they were when name
\* has a path separator in it; delete_file raises ValueError and removes nothing
\* when name resolves to a directory, delete_subfolder when it resolves to a file.
C9_NamesChecked ==
    NameCalled =>
        /\ HasSep(last.arg) =>
               last.exc = "ValueError" /\ fs = last.pre /\ folder = last.h0
        /\ (last.op = "Folder.delete_file" /\ ~HasSep(last.arg) /\ Named.k = "dir") =>
               last.exc = "ValueError" /\ fs = last.pre
        /\ (last.op = "Folder.delete_subfolder" /\ ~HasSep(last.arg) /\ Named.k = "file") =>
               last.exc = "ValueError" /\ fs = last.pre

\* C9 witness: delete_subfolder was given a path that leads to a directory of the
\* folder holding an entry, and refused it
C9_Witness ==
    /\ last.op = "Folder.delete_subfolder"
    /\ Folder_bool(last.pre, last.h0)
    /\ HasSep(last.arg)
    /\ isdir(last.pre, last.h0.p \o split(last.arg))
    /\ last.exc = "ValueError"

\* the methods of a File handle that C2 names
FileOps ==
    {"File.read_bytes", "File.read_text", "File.write_bytes", "File.write_text",
     "File.grep", "File.__iter__", "File.delete", "File.copy_to", "File.move_to",
     "File.hash"}

\* C2: once File.delete() has returned the handle's path is cleared, bool(handle)
\* is False, and every later call of read_bytes, read_text, write_bytes,
\* write_text, grep, iteration, delete, copy_to, move_to or hash raises
\* ValueError and leaves the filesystem and the handle as they were, so the
\* handle stays invalid whatever is called on it.
C2_DeletedStaysInvalid ==
    /\ (last.op = "File.delete" /\ last.exc = OK) => file.st = "None"
    /\ file.st = "None" => ~File_bool(fs, file)
    /\ (last.op \in FileOps /\ last.h0.st = "None") =>
           last.exc = "ValueError" /\ fs = last.pre /\ file = last.h0

\* C2 witness: a write was called on the handle after delete() had returned and
\* another actor had put a file somewhere again
C2_Witness ==
    /\ last.op = "File.write_bytes"
    /\ last.h0.st = "None"
    /\ \E q \in DOMAIN fs : fs[q].k = "file"

\* C7 as stated: File.delete() on a handle whose path is set (no delete() before)
\* and whose file another actor has already removed returns without error and
\* leaves the path cleared.
C7_DeleteToleratesAbsent ==
    (last.op = "File.delete" /\ last.h0.st = "path"
        /\ lstat(last.pre, last.h0.p).k = "absent") =>
        last.exc = OK /\ file.st = "None"

\* C8 as stated: write_bytes and write_text on a handle that is not valid (path
\* cleared, or no file at its path any more) raise ValueError, create no file and
\* do not make the handle valid again.
C8_WriteOnInvalidRaises ==
    (last.op \in {"File.write_bytes", "File.write_text"}
        /\ ~File_bool(last.pre, last.h0)) =>
        last.exc = "ValueError" /\ fs = last.pre /\ ~File_bool(fs, file)

\* a constructor that may create, or an add_file given nothing to write, has
\* just ended
CreateCalled ==
    \/ last.op = "File.__init__"
    \/ last.op = "Folder.add_file"
           /\ (last.h0.lib = "utils" => last.arg.content = <<>>)

\* C10 as stated: opening a File with creation requested (either library's
\* constructor, add_file built on them) never shortens or empties a file that
\* is already there, whatever another actor did between the existence check and
\* the creating open: every file is after the call what it was just before.
C10_CreateNeverTruncates ==
    CreateCalled =>
        \A q \in DOMAIN last.pre :
            last.pre[q].k = "file" => q \in DOMAIN fs /\ fs[q] = last.pre[q]

\* no entry of f is a symbolic link
NoLinks(f) == \A q \in DOMAIN f : f[q].k # "link"

\* a Folder.delete() call made in steps has ended, and during its loop over
\* files() another actor removed a file listed and not yet reached
RacedDelete == last.op = "Folder.delete" /\ "raced" \in DOMAIN last /\ last.raced

\* C11 as stated: when another actor removes a file of the subtree that
\* Folder.delete() has listed and not yet removed, the file is skipped: the
\* call returns without raising, nothing of the subtree and not the root
\* directory is left, and the handle's path is cleared.  (Trees without
\* symbolic links are enough to show it false.)
C11_RacedDeleteSkips ==
    (RacedDelete /\ NoLinks(last.pre)) =>
        /\ last.exc = OK
        /\ Under(fs, Root(last.pre, last.h0)) = {}
        /\ folder.st = "None"

\* a File.copy_to(path) call has just ended on a handle that was valid
CopyToCalled == last.op = "File.copy_to" /\ File_bool(last.pre, last.h0)

\* C12: whether File.copy_to returns or raises, the source handle is still
\* valid with the same path and the source file's content is unchanged; when
\* it returns, the result is (the source handle, a valid handle to the new
\* file) and the new file's content equals the source's, a source that is a
\* symbolic link being copied as the content of its target.
C12_CopyToKeepsSource ==
    CopyToCalled =>
        /\ file = last.h0
        /\ File_bool(fs, file)
        /\ read(fs, file.p) = read(last.pre, last.h0.p)
        /\ last.exc = OK =>
               /\ last.ret[1] = last.h0
               /\ File_bool(fs, last.ret[2])
               /\ read(fs, last.ret[2].p) = read(last.pre, last.h0.p)

\* copy_to has returned from a source that is a symbolic link, with content,
\* and the new file is another entry than the link's target
C12_Witness ==
    /\ CopyToCalled
    /\ last.exc = OK
    /\ islink(last.pre, last.h0.p)
    /\ read(last.pre, last.h0.p) # <<>>
    /\ Root(fs, last.ret[2]) # Root(fs, last.h0)

\* a utils.Folder.find call has just ended, on a handle whose directory existed
UtilsFindCalled == last.op = "utils.Folder.find" /\ isdir(last.pre, last.h0.p)

\* the first entry under the directory d of f whose bare name matches, in
\* depth-first pre-order over the listing order (the matching files of a
\* directory, then each subfolder followed by what it holds), the same mode at
\* every depth: <<entry>>, or <<>> when nothing matches
RECURSIVE FirstMatch(_, _, _, _, _)
FirstMatch(f, d, item, use_regex, rev) ==
    LET names == listdir(f, d, rev).names
        Hit(x) == utils_find_test(item, use_regex, x)
        files == SelectSeq(names, LAMBDA x : f[Append(d, x)].k = "file" /\ Hit(x))
        dirs == SelectSeq(names, LAMBDA x : f[Append(d, x)].k = "dir")
        RECURSIVE Sub(_)
        Sub(i) ==
            IF i > Len(dirs) THEN <<>>
            ELSE IF Hit(dirs[i]) THEN <<Append(d, dirs[i])>>
            ELSE LET inner == FirstMatch(f, Append(d, dirs[i]), item, use_regex, rev)
                 IN  IF inner # <<>> THEN inner ELSE Sub(i + 1)
    IN  IF files # <<>> THEN <<Append(d, files[1])>> ELSE Sub(1)

\* C13 as stated: utils.Folder.find(item, use_regex) returns a matching entry
\* whenever a file or subfolder at any depth matches and None only when none
\* does, an entry matching when its bare name equals item (use_regex False) or
\* when the pattern matches at its start (use_regex True), in the same mode at
\* every depth; the entry returned is the first match in depth-first
\* pre-order.  (Trees without symbolic links are enough to show it false.)
C13_UtilsFindFirstMatch ==
    (UtilsFindCalled /\ NoLinks(last.pre)) =>
        LET want == FirstMatch(last.pre, Root(last.pre, last.h0), last.arg.item,
                               last.arg.use_regex, last.arg.rev)
        IN  /\ last.exc = OK
            /\ want = <<>> => last.ret.cls = "None"
            /\ want # <<>> =>
                   /\ last.ret.cls # "None"
                   /\ Root(last.pre, last.ret.h) = want[1]


\* a utils.Folder.delete() call has returned, on a handle whose directory
\* existed
UtilsDeleteReturned ==
    last.op = "utils.Folder.delete" /\ last.exc = OK /\ isdir(last.pre, last.h0.p)

\* the entries of kind k that f held under the directory r, r apart, and that g
\* does not hold
Removed(f, g, r, k) == {q \in Under(f, r) \ {r} : f[q].k = k /\ q \notin DOMAIN g}

\* C14 as stated: utils.Folder.delete() returns a pair (deleted files,
\* deleted folders), the first list with exactly one handle for each file
\* removed anywhere in the subtree and the second with exactly one handle for
\* each subfolder removed; on a directory already empty it returns two empty
\* lists.  (Trees without symbolic links are enough to show it false.)
C14_UtilsDeleteReturnsRemoved ==
    (UtilsDeleteReturned /\ NoLinks(last.pre)) =>
        LET root == Root(last.pre, last.h0)
        IN  /\ Len(last.ret[1]) = Cardinality(Removed(last.pre, fs, root, "file"))
            /\ Len(last.ret[2]) = Cardinality(Removed(last.pre, fs, root, "dir"))
            /\ Under(last.pre, root) = {root} => last.ret = <<<<>>, <<>>>>


\* a compareContent call has just ended, on two handles that were valid and
\* two directories all of whose entries could be examined
CompareCalled ==
    /\ last.op = "Folder.compareContent"
    /\ Folder_bool(last.pre, last.h0)
    /\ Folder_bool(last.pre, last.arg)
    /\ \A h \in {last.h0, last.arg} :
           \A q \in Children(last.pre, Root(last.pre, h)) :
               Walk(last.pre, <<>>, join(h.p, Last(q)), TRUE, MaxHops).err
                   \in {OK, "ENOENT"}

\* the direct files of the directory d of f: its entries that are files, or
\* links leading to one
DirectFiles(f, d) == {q \in Children(f, d) : stat(f, q).k = "file"}

\* the i-th of the set S of entries of one directory, by name
Nth(S, i) == CHOOSE q \in S : Cardinality({r \in S : StrLess(Last(r), Last(q))}) = i - 1

\* C15: the comparison pairs the direct files of the two folders by position,
\* each folder's files sorted by name; it fails with CountMismatch when the
\* folders do not hold the same number of direct files, and otherwise returns
\* true exactly when the two files of every pair have equal content digests
\* (equal contents, no two contents sharing a digest).
C15_CompareByPosition ==
    CompareCalled =>
        LET mine == DirectFiles(last.pre, Root(last.pre, last.h0))
            theirs == DirectFiles(last.pre, Root(last.pre, last.arg))
        IN  IF Cardinality(mine) # Cardinality(theirs)
            THEN last.exc = "CountMismatch"
            ELSE /\ last.exc = OK
                 /\ last.ret <=> \A i \in 1..Cardinality(mine) :
                                    stat(last.pre, Nth(mine, i)).c
                                        = stat(last.pre, Nth(theirs, i)).c

\* two folders, each holding one file, the two named differently and holding
\* the same bytes, have been compared and found equal
C15_Witness ==
    /\ CompareCalled
    /\ last.exc = OK
    /\ last.ret = TRUE
    /\ \E p \in DirectFiles(last.pre, Root(last.pre, last.h0)),
          q \in DirectFiles(last.pre, Root(last.pre, last.arg)) :
           /\ DirectFiles(last.pre, Root(last.pre, last.h0)) = {p}
           /\ DirectFiles(last.pre, Root(last.pre, last.arg)) = {q}
           /\ Last(p) # Last(q)
           /\ stat(last.pre, p).c # <<>>


\* a Folder.delete() call on a directory, not itself a link, has ended in an
\* OS error
DeleteFailed ==
    /\ DeleteCalled
    /\ ~islink(last.pre, last.h0.p)
    /\ last.exc \in OSErrors

\* the order in which Folder.delete() on the directory d of f removes entries:
\* the files of d by name (links to files among them), then for each subfolder
\* by name what it holds and itself (a link to a directory: the link alone),
\* then d
RECURSIVE DeleteOrder(_, _)
DeleteOrder(f, d) ==
    LET names == SortNames({Last(q) : q \in Children(f, d)})
        files == SelectSeq(names, LAMBDA x : stat(f, Append(d, x)).k = "file")
        dirs == SelectSeq(names, LAMBDA x : stat(f, Append(d, x)).k = "dir")
        RECURSIVE Subs(_)
        Subs(i) ==
            IF i > Len(dirs) THEN <<>>
            ELSE (IF f[Append(d, dirs[i])].k = "link" THEN <<Append(d, dirs[i])>>
                  ELSE DeleteOrder(f, Append(d, dirs[i]))) \o Subs(i + 1)
    IN  [i \in 1..Len(files) |-> Append(d, files[i])] \o Subs(1) \o <<d>>

\* C16 as stated: when a removal fails with an OS error part-way through
\* Folder.delete(), the error reaches the caller; what was removed before the
\* failure stays removed and nothing is removed after it (the entries gone are
\* the first k of the removal order, the root directory not among them, and
\* every other entry is as it was); the handle's path is not cleared: the root
\* directory still exists and the handle is still valid.
C16_FailedDeleteStops ==
    DeleteFailed =>
        LET root == Root(last.pre, last.h0)
            order == DeleteOrder(last.pre, root)
        IN  /\ \E k \in 0..(Len(order) - 1) :
                   DOMAIN last.pre \ DOMAIN fs = {order[i] : i \in 1..k}
            /\ \A q \in DOMAIN fs : Kept(fs, last.pre, q)
            /\ folder = last.h0
            /\ Node(fs, root).k = "dir"
            /\ Folder_bool(fs, folder)

\* the entries that differ between f and g: created, removed or changed
Changed(f, g) ==
    {q \in DOMAIN f \cup DOMAIN g : q \notin DOMAIN f \/ q \notin DOMAIN g \/ f[q] # g[q]}

\* C17 as stated: for every name that passes the bare-name check
\* basename(name) == name, the empty string, "." and ".." among them,
\* add_file, delete_file, make_subfolder and delete_subfolder create or remove
\* entries only strictly inside the folder's own directory: the folder itself
\* is not removed and no entry of its parent or outside its subtree is created
\* or removed.  (Trees without symbolic links are enough to show it false.)
C17_NamesStayInside ==
    (NameCalled /\ basename(last.arg) = last.arg /\ NoLinks(last.pre)) =>
        LET root == Root(last.pre, last.h0)
        IN  /\ Node(fs, root).k = "dir"
            /\ \A q \in Changed(last.pre, fs) : IsPrefix(root, q) /\ q # root


\* a Folder.copy_to(path) call has just ended, on a handle that was valid
CopyToEntered == last.op = "Folder.copy_to" /\ Folder_bool(last.pre, last.h0)

\* the directory, as the filesystem stood at call time, that copy_to entered
\* when it made the i-th makedirs call of its log: the one the folder's path
\* followed by the part of the destination below the path given leads to
EnteredAt(i) ==
    LET log == last.ret.log
    IN  Walk(last.pre, <<>>,
             last.h0.p \o SubSeq(log[i].p, Len(last.arg) + 1, Len(log[i].p)),
             TRUE, MaxHops)

\* C18 as stated, on copy_to: a call on a finite tree enters each directory
\* of the source subtree as it stood at call time at most once (every
\* copy_to call on a folder of the tree starts with one makedirs call), also
\* when the destination lies inside the source subtree and when the tree holds
\* a directory link to one of its ancestors.
C18_CopyToEntersOnce ==
    CopyToEntered =>
        \A i, j \in LogAt(last.ret.log, "makedirs") :
            (/\ i # j
             /\ EnteredAt(i).err = OK
             /\ EnteredAt(j).err = OK
             /\ Node(last.pre, EnteredAt(i).p).k = "dir")
                => EnteredAt(i).p # EnteredAt(j).p

=============================================================================
